---------------------------- MODULE Spec2Model ----------------------------
(***************************************************************************)
(* Decorator pattern of the notification example: Notifier,                *)
(* SimpleNotifier, NotifierDecorator (06-decorator/code/Notifier.ts) and   *)
(* TimestampDecorator, UrgentDecorator, EmojiDecorator                     *)
(* (decorator/code/main.ts, the Decorators part).                          *)
(*                                                                         *)
(* A string is a sequence of one-character strings, so that toUpperCase    *)
(* and concatenation are computed character by character.  An emoji is one *)
(* character, written as its code point.  The class names that             *)
(* getDescription concatenates are kept as one piece each.                 *)
(*                                                                         *)
(* The other examples of the repository follow, each with its own          *)
(* variables and its own specification: the singleton cart (UserCart,      *)
(* Purchase), the observer channels (YouTubeChannel, SlackChannel), the    *)
(* template method drinks (HotDrink), the home theater facade, the         *)
(* strategy Navigator and the notification factory.                        *)
(***************************************************************************)
EXTENDS Integers, Sequences, FiniteSets, TLC

VARIABLES
    objs,   \* the notifier objects constructed so far, in construction order
    clock,  \* the wall clock new Date() reads, in seconds since midnight
    last,   \* the most recent call made by the client and what it did
    instance,    \* UserCart.instance, the static field
    userCarts,   \* the UserCart objects constructed so far
    refs,        \* what the client's UserCart.getInstance() calls returned, in call order
    purchases,   \* the Purchase objects constructed so far
    cartLast,    \* the most recent cart or purchase call and what it did
    observers,   \* this.observers (this.members) of every channel
    membership,  \* per channel and observer, the client's last subscribe or unsubscribe
    joined,      \* per channel, its subscribers in the order the client subscribed them
    channelLast, \* the most recent channel call and what it did
    drinks,      \* the HotDrink objects constructed so far, by class
    made,        \* the most recent make() and what it did
    manual,      \* the script that drives the home theater subsystems by hand
    facade,      \* the most recent HomeTheaterFacade call and what it did
    navigators,  \* the Navigator objects constructed so far: this.strategy of each
    installed,   \* per Navigator, the strategy the client passed it last
    navLast,     \* the most recent Navigator call and what it did
    notifications, \* the Notification objects the factory has constructed
    factoryLast  \* the most recent factory or notification call and what it did

notifierVars == <<objs, clock, last>>
cartVars == <<instance, userCarts, refs, purchases, cartLast>>
channelVars == <<observers, membership, joined, channelLast>>
drinkVars == <<drinks, made>>
theaterVars == <<manual, facade>>
navigatorVars == <<navigators, installed, navLast>>
factoryVars == <<notifications, factoryLast>>

vars == <<notifierVars, cartVars, channelVars, drinkVars, theaterVars,
          navigatorVars, factoryVars>>

\* What the calls of one pattern's example leave alone: the other examples.
outsideNotifier ==
    <<cartVars, channelVars, drinkVars, theaterVars, navigatorVars, factoryVars>>
outsideCart ==
    <<notifierVars, channelVars, drinkVars, theaterVars, navigatorVars, factoryVars>>
outsideChannels ==
    <<notifierVars, cartVars, drinkVars, theaterVars, navigatorVars, factoryVars>>
outsideDrinks ==
    <<notifierVars, cartVars, channelVars, theaterVars, navigatorVars, factoryVars>>
outsideTheater ==
    <<notifierVars, cartVars, channelVars, drinkVars, navigatorVars, factoryVars>>
outsideNavigators ==
    <<notifierVars, cartVars, channelVars, drinkVars, theaterVars, factoryVars>>
outsideFactory ==
    <<notifierVars, cartVars, channelVars, drinkVars, theaterVars, navigatorVars>>

----------------------------------------------------------------------------
(* Bounds *)

\* Longest chain (terminal or missing successor, plus wrappers) constructed.
MaxLinks == 4
\* Longest chain constructed on a missing successor.
MaxBrokenLinks == 2
\* Seconds the clock advances during a run.
MaxTicks == 1
\* The clock reading at the start of a run: 09:59:59.
ClockStart == 35999

----------------------------------------------------------------------------
(* Strings *)

LowerCase == <<"a", "b", "c", "d", "e", "f", "g", "h", "i", "j", "k", "l", "m",
               "n", "o", "p", "q", "r", "s", "t", "u", "v", "w", "x", "y", "z">>
UpperCase == <<"A", "B", "C", "D", "E", "F", "G", "H", "I", "J", "K", "L", "M",
               "N", "O", "P", "Q", "R", "S", "T", "U", "V", "W", "X", "Y", "Z">>
Digits == <<"0", "1", "2", "3", "4", "5", "6", "7", "8", "9">>

\* String.prototype.toUpperCase on one character: a lower-case letter maps to
\* its capital, every other character (digit, punctuation, emoji) to itself.
CapitalOf == [c \in {LowerCase[i] : i \in 1..Len(LowerCase)} |->
                UpperCase[CHOOSE i \in 1..Len(LowerCase) : LowerCase[i] = c]]
toUpperCaseChar(c) == IF c \in DOMAIN CapitalOf THEN CapitalOf[c] ELSE c

\* message.toUpperCase()
toUpperCase(s) == [i \in 1..Len(s) |-> toUpperCaseChar(s[i])]

\* A field formatted with "2-digit".
TwoDigit(n) == <<Digits[(n \div 10) + 1], Digits[(n % 10) + 1]>>

\* The day the run happens on, as month/day/year of the en-US locale.
DatePart == <<"0", "1", "/", "1", "5", "/", "2", "0", "2", "4">>
\* The same day with month: "short" instead of "2-digit".
DatePartShortMonth == <<"J", "a", "n", " ", "1", "5", ",", " ", "2", "0", "2", "4">>

\* toLocaleString with month: "short": "Jan 15, 2024, 09:59:59".
toLocaleStringShortMonth(now) ==
    DatePartShortMonth \o <<",", " ">> \o TwoDigit(now \div 3600) \o <<":">>
        \o TwoDigit((now \div 60) % 60) \o <<":">> \o TwoDigit(now % 60)

\* new Date().toLocaleString("en-US", {year: "numeric", month: "2-digit",
\* day: "2-digit", hour: "2-digit", minute: "2-digit", second: "2-digit",
\* hour12: false}): "01/15/2024, 09:59:59".
toLocaleString(now) ==
    DatePart \o <<",", " ">> \o TwoDigit(now \div 3600) \o <<":">>
        \o TwoDigit((now \div 60) % 60) \o <<":">> \o TwoDigit(now % 60)

\* The messages the client sends.
MsgServerIsRunning == <<"S", "e", "r", "v", "e", "r", " ", "i", "s", " ",
                        "r", "u", "n", "n", "i", "n", "g", ".">>
MsgHi == <<"h", "i", "!">>
MsgDatabaseConnectionLost ==
    <<"D", "a", "t", "a", "b", "a", "s", "e", " ", "c", "o", "n", "n", "e", "c",
      "t", "i", "o", "n", " ", "l", "o", "s", "t", "!">>
Messages == {MsgServerIsRunning, MsgHi}

\* The default emoji of EmojiDecorator (a bell) and one the client passes (a
\* police light).
DefaultEmoji == <<"U+1F514">>
SirenEmoji == <<"U+1F6A8">>

\* The emoji argument of new EmojiDecorator(wrapped, emoji?): left out, or given.
EmojiArgs == {[given |-> FALSE, value |-> <<>>], [given |-> TRUE, value |-> SirenEmoji]}

----------------------------------------------------------------------------
(* Objects *)

\* A reference that is undefined (or null): no object has this identity.
Undefined == 0

Decorators == {"TimestampDecorator", "UrgentDecorator", "EmojiDecorator"}

\* new SimpleNotifier(): no fields.
SimpleNotifier == [cls |-> "SimpleNotifier", wrapped |-> Undefined, emoji |-> <<>>]

\* A NotifierDecorator constructor that declares the parameter without
\* "protected" and never assigns this.wrapped.
NotifierDecoratorUnassigned(cls, wrapped) ==
    [cls |-> cls, wrapped |-> Undefined, emoji |-> <<>>]

\* NotifierDecorator's constructor: the parameter property stores the argument
\* in this.wrapped, whatever it is.
NotifierDecorator(cls, wrapped) == [cls |-> cls, wrapped |-> wrapped, emoji |-> <<>>]

\* EmojiDecorator's constructor: super(wrapped), then this.emoji = emoji, where
\* the parameter defaults to the bell when the argument is left out.
EmojiDecorator(wrapped, emoji) ==
    [NotifierDecorator("EmojiDecorator", wrapped) EXCEPT
        !.emoji = IF emoji.given THEN emoji.value ELSE DefaultEmoji]

\* The successor a nested construction passes to the next wrapper: the notifier
\* built just before, or nothing when none was built.
SuccessorArg == IF Len(objs) = 0 THEN Undefined ELSE Len(objs)

\* Whether the client constructs one more wrapper around what it has built.
CanWrap ==
    IF Len(objs) > 0 /\ objs[1].cls = "SimpleNotifier"
    THEN Len(objs) < MaxLinks
    ELSE Len(objs) < MaxBrokenLinks

----------------------------------------------------------------------------
(* send *)

\* "    [Send] " of SimpleNotifier.send's template literal.
SendPrefix == <<" ", " ", " ", " ", "[", "S", "e", "n", "d", "]", " ">>
UrgentPrefix == <<"U", "R", "G", "E", "N", "T", ":", " ">>

\* What a call did, as its caller sees it: the send methods entered, in order,
\* each with the message it received; the lines written to the console; and
\* whether the call returned or threw (and what).
Returned(calls, lines) ==
    [calls |-> calls, lines |-> lines, outcome |-> "returned", error |-> "none"]
Threw(calls, error) ==
    [calls |-> calls, lines |-> <<>>, outcome |-> "threw", error |-> error]

\* SimpleNotifier.send: console.log of the prefixed message.  console.log
\* throws when the output sink is not available.
SimpleNotifierSend(self, message, sinkOk) ==
    IF sinkOk
    THEN Returned(<<[link |-> self, received |-> message]>>, <<SendPrefix \o message>>)
    ELSE Threw(<<[link |-> self, received |-> message]>>, "SinkError")

\* A TimestampDecorator.send that puts the timestamp after the message.
TimestampDecoratedAfter(now, message) ==
    message \o <<" ", "[">> \o toLocaleString(now) \o <<"]">>

\* TimestampDecorator.send: `[${now}] ${message}`
TimestampDecorated(now, message) ==
    <<"[">> \o toLocaleString(now) \o <<"]", " ">> \o message

\* An UrgentDecorator.send that passes on message instead of decorated.
UrgentDecoratedUnchanged(message) == message

\* An UrgentDecorator.send that leaves out the marker.
UrgentDecoratedNoMarker(message) == toUpperCase(message)

\* UrgentDecorator.send: `URGENT: ${message.toUpperCase()}`
UrgentDecorated(message) == UrgentPrefix \o toUpperCase(message)

\* An EmojiDecorator.send that puts the emoji after the message.
EmojiDecoratedAfter(emoji, message) == message \o <<" ">> \o emoji

\* An EmojiDecorator.send that keeps what it built before: from the second
\* send on, the emoji is there twice.
EmojiDecoratedKept(emoji, message) ==
    IF last.op = "send"
    THEN emoji \o emoji \o <<" ">> \o message
    ELSE emoji \o <<" ">> \o message

\* EmojiDecorator.send: `${this.emoji} ${message}`
EmojiDecorated(emoji, message) == emoji \o <<" ">> \o message

\* A NotifierDecorator.send that marks the message it passes on.
BaseForwardedLogged(message) == <<"[", "L", "O", "G", "]", " ">> \o message

\* NotifierDecorator.send, inherited by a decorator that does not override
\* it: this.wrapped.send(message).
BaseForwarded(message) == message

\* The string a decorator passes on, by its class.
Decorated(obj, now, message) ==
    CASE obj.cls = "NotifierDecorator" -> BaseForwarded(message)
      [] obj.cls = "TimestampDecorator" -> TimestampDecorated(now, message)
      [] obj.cls = "UrgentDecorator" -> UrgentDecorated(message)
      [] obj.cls = "EmojiDecorator" -> EmojiDecorated(obj.emoji, message)

RECURSIVE send(_, _, _, _, _)

\* A send that forwards message instead of decorated.
ForwardOriginal(heap, self, message, decorated, now, sinkOk) ==
    LET entered == <<[link |-> self, received |-> message]>> IN
    IF heap[self].wrapped = Undefined
    THEN Threw(entered, "TypeError")
    ELSE LET r == send(heap, heap[self].wrapped, message, now, sinkOk)
         IN  [r EXCEPT !.calls = entered \o r.calls]

\* A send that forwards with this.wrapped?.send(decorated).
ForwardIfPresent(heap, self, message, decorated, now, sinkOk) ==
    LET entered == <<[link |-> self, received |-> message]>> IN
    IF heap[self].wrapped = Undefined
    THEN Returned(entered, <<>>)
    ELSE LET r == send(heap, heap[self].wrapped, decorated, now, sinkOk)
         IN  [r EXCEPT !.calls = entered \o r.calls]

\* The broken chain: a send that writes decorated to the console itself and
\* never calls this.wrapped.send.
ForwardBroken(heap, self, message, decorated, now, sinkOk) ==
    LET entered == <<[link |-> self, received |-> message]>> IN
    IF sinkOk THEN Returned(entered, <<decorated>>) ELSE Threw(entered, "SinkError")

\* A send that wraps this.wrapped.send(decorated) in try/catch and drops the
\* error.
ForwardCatching(heap, self, message, decorated, now, sinkOk) ==
    LET entered == <<[link |-> self, received |-> message]>> IN
    IF heap[self].wrapped = Undefined
    THEN Returned(entered, <<>>)
    ELSE LET r == send(heap, heap[self].wrapped, decorated, now, sinkOk)
         IN  IF r.outcome = "threw"
             THEN Returned(entered \o r.calls, <<>>)
             ELSE [r EXCEPT !.calls = entered \o r.calls]

\* this.wrapped.send(decorated), the last statement of every decorator's send:
\* a TypeError when this.wrapped is undefined, else whatever the successor's
\* send does, with nothing caught and nothing done after it.
Forward(heap, self, message, decorated, now, sinkOk) ==
    LET entered == <<[link |-> self, received |-> message]>> IN
    IF heap[self].wrapped = Undefined
    THEN Threw(entered, "TypeError")
    ELSE LET r == send(heap, heap[self].wrapped, decorated, now, sinkOk)
         IN  [r EXCEPT !.calls = entered \o r.calls]

\* notifier.send(message), dispatched on the class of the object.
send(heap, self, message, now, sinkOk) ==
    IF heap[self].cls = "SimpleNotifier"
    THEN SimpleNotifierSend(self, message, sinkOk)
    ELSE Forward(heap, self, message, Decorated(heap[self], now, message), now, sinkOk)

----------------------------------------------------------------------------
(* getDescription *)

Value(v) == [outcome |-> "returned", error |-> "none", value |-> v]
NoValue(error) == [outcome |-> "threw", error |-> error, value |-> <<>>]

\* A getDescription that puts the successor's description first.
WrapInnerFirst(name, inner) == inner \o <<"(", name, ")">>

\* A getDescription that keeps what it built before: asked again, it wraps
\* once more.
WrapKept(name, inner) ==
    IF last.op = "getDescription"
    THEN <<name, "(", name, "(">> \o inner \o <<")", ")">>
    ELSE <<name, "(">> \o inner \o <<")">>

\* `Name(${inner})` of the decorators' getDescription.
Wrap(name, inner) == <<name, "(">> \o inner \o <<")">>

\* NotifierDecorator.getDescription, inherited by a decorator that does not
\* override it: this.wrapped.getDescription().
BaseDescription(inner) == inner

RECURSIVE getDescription(_, _)

\* notifier.getDescription(): the terminal's fixed label, or the decorator's
\* class name around this.wrapped.getDescription(); a TypeError when
\* this.wrapped is undefined.
getDescription(heap, self) ==
    IF heap[self].cls = "SimpleNotifier"
    THEN Value(<<"SimpleNotifier">>)
    ELSE IF heap[self].wrapped = Undefined
         THEN NoValue("TypeError")
         ELSE LET r == getDescription(heap, heap[self].wrapped)
              IN  IF r.outcome = "threw" THEN r
                  ELSE IF heap[self].cls = "NotifierDecorator"
                       THEN Value(BaseDescription(r.value))
                       ELSE Value(Wrap(heap[self].cls, r.value))

----------------------------------------------------------------------------
(* The other examples at program start *)

\* No cart call yet.
NoCartCall ==
    [op |-> "none", cart |-> Undefined, returned |-> Undefined, before |-> <<>>,
     calls |-> <<>>, lines |-> <<>>, total |-> <<>>, followsPurchase |-> FALSE]

\* UserCart.instance is unset and nothing is constructed.
CartStart ==
    /\ instance = Undefined
    /\ userCarts = <<>>
    /\ refs = <<>>
    /\ purchases = <<>>
    /\ cartLast = NoCartCall

\* The channels of the demo and the observer objects of the demo.
Channels == {"Tech Academy", "Cooking Master"}
Observers == {"Alice", "Bob", "Discord Bot"}

\* No channel call yet.
NoChannelCall ==
    [op |-> "none", channel |-> "none", observer |-> "none", before |-> <<>>,
     said |-> "none", outcome |-> "none", receipts |-> <<>>]

\* private observers: Observer[] = [] in every channel; nobody has subscribed.
ChannelsStart ==
    /\ observers = [c \in Channels |-> <<>>]
    /\ membership = [c \in Channels |-> [o \in Observers |-> "never"]]
    /\ joined = [c \in Channels |-> <<>>]
    /\ channelLast = NoChannelCall

\* No make() yet.
NoMake ==
    [drink |-> 0, cls |-> "none", steps |-> <<>>, wanted |-> <<>>, lines |-> <<>>]

DrinksStart ==
    /\ drinks = <<>>
    /\ made = NoMake

\* No facade call yet.
NoFacadeCall ==
    [op |-> "none", movie |-> "none", calls |-> <<>>, said |-> <<>>]

\* The manual script has not started; the facade has not been called.
TheaterStart ==
    /\ manual = [pc |-> 0, movie |-> "none", calls |-> <<>>]
    /\ facade = NoFacadeCall

\* No Navigator call yet.
NoNavigatorCall ==
    [op |-> "none", navigator |-> 0, origin |-> "none", destination |-> "none",
     strategyBefore |-> "none", lines |-> <<>>, returned |-> <<>>]

NavigatorsStart ==
    /\ navigators = <<>>
    /\ installed = <<>>
    /\ navLast = NoNavigatorCall

\* No factory call yet.
NoFactoryCall ==
    [op |-> "none", type |-> "none", recipient |-> "none", target |-> 0,
     message |-> <<>>, countBefore |-> 0, outcome |-> "none", error |-> <<>>,
     returned |-> 0, lines |-> <<>>]

FactoryStart ==
    /\ notifications = <<>>
    /\ factoryLast = NoFactoryCall

----------------------------------------------------------------------------
(* The client *)

NoCall ==
    [op |-> "none", root |-> Undefined, message |-> <<>>, now |-> 0, sinkOk |-> TRUE,
     calls |-> <<>>, lines |-> <<>>, outcome |-> "none", error |-> "none",
     value |-> <<>>, repeated |-> FALSE, prevNow |-> 0, prevLines |-> <<>>]

Init ==
    /\ objs = <<>>
    /\ clock = ClockStart
    /\ last = NoCall
    /\ CartStart
    /\ ChannelsStart
    /\ DrinksStart
    /\ TheaterStart
    /\ NavigatorsStart
    /\ FactoryStart

\* new SimpleNotifier()
NewSimpleNotifier ==
    /\ Len(objs) = 0
    /\ objs' = Append(objs, SimpleNotifier)
    /\ UNCHANGED <<clock, last, outsideNotifier>>

\* new TimestampDecorator(wrapped)
NewTimestampDecorator ==
    /\ CanWrap
    /\ objs' = Append(objs, NotifierDecorator("TimestampDecorator", SuccessorArg))
    /\ UNCHANGED <<clock, last, outsideNotifier>>

\* new UrgentDecorator(wrapped)
NewUrgentDecorator ==
    /\ CanWrap
    /\ objs' = Append(objs, NotifierDecorator("UrgentDecorator", SuccessorArg))
    /\ UNCHANGED <<clock, last, outsideNotifier>>

\* new EmojiDecorator(wrapped) and new EmojiDecorator(wrapped, emoji)
NewEmojiDecorator ==
    /\ CanWrap
    /\ \E emoji \in EmojiArgs :
         objs' = Append(objs, EmojiDecorator(SuccessorArg, emoji))
    /\ UNCHANGED <<clock, last, outsideNotifier>>

\* new PlainDecorator(wrapped), of a class that extends NotifierDecorator and
\* overrides nothing.
NewBaseDecorator ==
    /\ CanWrap
    /\ objs' = Append(objs, NotifierDecorator("NotifierDecorator", SuccessorArg))
    /\ UNCHANGED <<clock, last, outsideNotifier>>

\* The notifier the client holds: the outermost one of what it has built.
Held == IF Len(objs) = 0 THEN {} ELSE {Len(objs)}

\* root.send(message) on the notifier the client holds.  last.repeated tells
\* that the call before it was a send of the same message to the same notifier
\* that reached the console, and prevNow and prevLines keep that call's clock
\* reading and console lines.
Send ==
    \E root \in Held, message \in Messages, sinkOk \in BOOLEAN :
        LET r == send(objs, root, message, clock, sinkOk)
            rep == /\ last.op = "send"
                   /\ last.root = root
                   /\ last.message = message
                   /\ last.outcome = "returned"
        IN  /\ last' = [NoCall EXCEPT
                            !.op = "send", !.root = root, !.message = message,
                            !.now = clock, !.sinkOk = sinkOk,
                            !.calls = r.calls, !.lines = r.lines,
                            !.outcome = r.outcome, !.error = r.error,
                            !.repeated = rep,
                            !.prevNow = IF rep THEN last.now ELSE 0,
                            !.prevLines = IF rep THEN last.lines ELSE <<>>]
            /\ UNCHANGED <<objs, clock, outsideNotifier>>

\* notifier.send("Database connection lost!"), the alert of the demo, on the
\* notifier the client holds.
SendAlert ==
    \E root \in Held, message \in {MsgDatabaseConnectionLost}, sinkOk \in BOOLEAN :
        LET r == send(objs, root, message, clock, sinkOk)
            rep == /\ last.op = "send"
                   /\ last.root = root
                   /\ last.message = message
                   /\ last.outcome = "returned"
        IN  /\ last' = [NoCall EXCEPT
                            !.op = "send", !.root = root, !.message = message,
                            !.now = clock, !.sinkOk = sinkOk,
                            !.calls = r.calls, !.lines = r.lines,
                            !.outcome = r.outcome, !.error = r.error,
                            !.repeated = rep,
                            !.prevNow = IF rep THEN last.now ELSE 0,
                            !.prevLines = IF rep THEN last.lines ELSE <<>>]
            /\ UNCHANGED <<objs, clock, outsideNotifier>>

\* root.getDescription() on the notifier the client holds.  last.repeated
\* tells that the call before it was a getDescription on the same notifier
\* that returned.
GetDescription ==
    \E root \in Held :
        LET r == getDescription(objs, root)
            rep == /\ last.op = "getDescription"
                   /\ last.root = root
                   /\ last.outcome = "returned"
        IN  /\ last' = [NoCall EXCEPT
                            !.op = "getDescription", !.root = root,
                            !.outcome = r.outcome, !.error = r.error,
                            !.value = r.value, !.repeated = rep]
            /\ UNCHANGED <<objs, clock, outsideNotifier>>

\* A second passes.
Tick ==
    /\ clock < ClockStart + MaxTicks
    /\ clock' = clock + 1
    /\ UNCHANGED <<objs, last, outsideNotifier>>

Next ==
    \/ NewSimpleNotifier
    \/ NewTimestampDecorator
    \/ NewUrgentDecorator
    \/ NewEmojiDecorator
    \/ Send
    \/ GetDescription
    \/ Tick

Spec == Init /\ [][Next]_vars

\* A client that also wraps with a decorator that overrides nothing (and does
\* without emojis).
NextBase ==
    \/ NewSimpleNotifier
    \/ NewBaseDecorator
    \/ NewTimestampDecorator
    \/ NewUrgentDecorator
    \/ Send
    \/ GetDescription
    \/ Tick

SpecBase == Init /\ [][NextBase]_vars

\* A client that sends the alert of the demo through what it has built.
NextAlert ==
    \/ NewSimpleNotifier
    \/ NewTimestampDecorator
    \/ NewUrgentDecorator
    \/ NewEmojiDecorator
    \/ SendAlert
    \/ GetDescription
    \/ Tick

SpecAlert == Init /\ [][NextAlert]_vars

----------------------------------------------------------------------------
(* Singleton: UserCart and Purchase (01-singleton/code) *)

\* References handed to the client by getInstance().
MaxRefs == 3
\* Purchase objects constructed.
MaxPurchases == 2
\* Items in the cart at one time.
MaxItems == 2

\* The products the demo puts into the cart.
Items ==
    {[id |-> 1, name |-> "Apple", price |-> 100],
     [id |-> 2, name |-> "Banana", price |-> 55]}

\* private constructor() with private items: Item[] = []
NewUserCart == [items |-> <<>>]

\* getInstance() without its check: constructs on every call.
getInstanceFresh(static, heap) ==
    LET h == Append(heap, NewUserCart)
    IN  [instance |-> Len(h), heap |-> h, returned |-> Len(h)]

\* static getInstance(): constructs the cart when UserCart.instance is unset,
\* and returns UserCart.instance.
getInstance(static, heap) ==
    IF static = Undefined
    THEN LET h == Append(heap, NewUserCart)
         IN  [instance |-> Len(h), heap |-> h, returned |-> Len(h)]
    ELSE [instance |-> static, heap |-> heap, returned |-> static]

RECURSIVE subtotal(_)

\* this.items.reduce((sum, item) => sum + item.price, 0)
subtotal(items) ==
    IF items = <<>> THEN 0 ELSE Head(items).price + subtotal(Tail(items))

\* calcTotal(): Math.floor(subtotal * 1.1)
calcTotal(items) == (subtotal(items) * 11) \div 10

\* The call before this one was an execute() that completed a purchase.
AfterPurchase == cartLast.op = "execute" /\ cartLast.total # <<>>

\* const cart = UserCart.getInstance() in client code.
GetInstance ==
    /\ Len(refs) < MaxRefs
    /\ LET r == getInstance(instance, userCarts)
       IN  /\ instance' = r.instance
           /\ userCarts' = r.heap
           /\ refs' = Append(refs, r.returned)
           /\ cartLast' = [NoCartCall EXCEPT
                               !.op = "getInstance", !.cart = r.returned,
                               !.returned = r.returned,
                               !.followsPurchase = AfterPurchase]
    /\ UNCHANGED <<purchases, outsideCart>>

\* new Purchase(): this.cart = UserCart.getInstance()
NewPurchase ==
    /\ Len(purchases) < MaxPurchases
    /\ LET r == getInstance(instance, userCarts)
       IN  /\ instance' = r.instance
           /\ userCarts' = r.heap
           /\ purchases' = Append(purchases, [cart |-> r.returned])
           /\ cartLast' = [NoCartCall EXCEPT
                               !.op = "new Purchase", !.cart = r.returned,
                               !.returned = r.returned,
                               !.followsPurchase = AfterPurchase]
    /\ UNCHANGED <<refs, outsideCart>>

\* cart.add(item) through one of the client's references.
Add ==
    \E r \in 1..Len(refs), item \in Items :
        LET c == refs[r]
        IN  /\ Len(userCarts[c].items) < MaxItems
            /\ userCarts' = [userCarts EXCEPT ![c].items = Append(@, item)]
            /\ cartLast' = [NoCartCall EXCEPT
                                !.op = "add", !.cart = c,
                                !.before = userCarts[c].items,
                                !.followsPurchase = AfterPurchase]
            /\ UNCHANGED <<instance, refs, purchases, outsideCart>>

\* reset() that leaves the items where they are.
resetKept(cart) == cart

\* reset(): this.items = []
reset(cart) == [cart EXCEPT !.items = <<>>]

\* execute() without its check of the cart.
executeUnguarded(cart) ==
    [cart |-> reset(cart),
     calls |-> <<"getItems", "calcTotal", "reset">>,
     lines |-> <<"Purchase Complete!", "-------------------">>
                 \o [i \in 1..Len(cart.items) |-> cart.items[i].name]
                 \o <<"-------------------", "Total (with tax):", "",
                      "Cart has been cleared.">>,
     total |-> <<calcTotal(cart.items)>>]

\* execute() on the cart the Purchase holds: refuses an empty cart; otherwise
\* prints the summary and the total and resets the cart.  calls are the cart
\* methods it called, total what it printed as total.
execute(cart) ==
    IF Len(cart.items) = 0
    THEN [cart |-> cart,
          calls |-> <<"getItems">>,
          lines |-> <<"Cannot purchase: Cart is empty!">>,
          total |-> <<>>]
    ELSE [cart |-> reset(cart),
          calls |-> <<"getItems", "calcTotal", "reset">>,
          lines |-> <<"Purchase Complete!", "-------------------">>
                      \o [i \in 1..Len(cart.items) |-> cart.items[i].name]
                      \o <<"-------------------", "Total (with tax):", "",
                           "Cart has been cleared.">>,
          total |-> <<calcTotal(cart.items)>>]

\* purchase.execute()
Execute ==
    \E p \in 1..Len(purchases) :
        LET c == purchases[p].cart
            r == execute(userCarts[c])
        IN  /\ userCarts' = [userCarts EXCEPT ![c] = r.cart]
            /\ cartLast' = [NoCartCall EXCEPT
                                !.op = "execute", !.cart = c,
                                !.before = userCarts[c].items,
                                !.calls = r.calls, !.lines = r.lines,
                                !.total = r.total,
                                !.followsPurchase = AfterPurchase]
            /\ UNCHANGED <<instance, refs, purchases, outsideCart>>

NextCart ==
    \/ GetInstance
    \/ NewPurchase
    \/ Add
    \/ Execute

SpecCart == Init /\ [][NextCart]_vars

----------------------------------------------------------------------------
(* Observer: YouTubeChannel (observer/code/Observer.ts) and SlackChannel,   *)
(* the same code with join, leave, postMessage and onMessage as names      *)

\* The video the demo uploads to the cooking channel.
Titles == {"How to Make Ramen"}

\* this.observers.includes(observer): the same object is in the array.
includes(list, observer) == \E i \in 1..Len(list) : list[i] = observer

\* this.observers.indexOf(observer): the first place of the object, counted
\* from 0, or -1.
indexOf(list, observer) ==
    IF includes(list, observer)
    THEN (CHOOSE i \in 1..Len(list) :
              /\ list[i] = observer
              /\ \A j \in 1..(i - 1) : list[j] # observer) - 1
    ELSE -1

\* this.observers.pop() in the place of splice: removes the last element.
spliceLast(list, index) == SubSeq(list, 1, Len(list) - 1)

\* this.observers.splice(index, 1): removes the element at index.
splice(list, index) ==
    [i \in 1..(Len(list) - 1) |-> IF i <= index THEN list[i] ELSE list[i + 1]]

\* subscribe without its guard: pushes every time.
subscribeUnguarded(list, observer) ==
    [observers |-> Append(list, observer), said |-> "subscribed!"]

\* subscribe(observer) / join(observer): what becomes of this.observers and
\* what is logged.
subscribe(list, observer) ==
    IF includes(list, observer)
    THEN [observers |-> list, said |-> "is already subscribed."]
    ELSE [observers |-> Append(list, observer), said |-> "subscribed!"]

\* unsubscribe without its check: splice(-1, 1) removes the last element.
unsubscribeUnguarded(list, observer) ==
    LET index == indexOf(list, observer)
    IN  [observers |-> IF index = -1
                       THEN SubSeq(list, 1, Len(list) - 1)
                       ELSE splice(list, index),
         said |-> "unsubscribed."]

\* unsubscribe(observer) / leave(observer)
unsubscribe(list, observer) ==
    LET index == indexOf(list, observer)
    IN  IF index = -1
        THEN [observers |-> list, said |-> "is not subscribed."]
        ELSE [observers |-> splice(list, index), said |-> "unsubscribed."]

\* notify looping from the end of this.observers.
notifyReversed(list, event) ==
    [i \in 1..Len(list) |-> [observer |-> list[Len(list) + 1 - i], event |-> event]]

\* notify(event): the update(event) calls made, in the order of the loop over
\* this.observers.
notify(list, event) ==
    [i \in 1..Len(list) |-> [observer |-> list[i], event |-> event]]

\* uploadVideo that names one channel in every event.
uploadVideoUnnamed(name, list, title) ==
    notify(list, [channelName |-> "Tech Academy", videoTitle |-> title])

\* uploadVideo(title) / postMessage(...): builds the event and notifies.
uploadVideo(name, list, title) ==
    notify(list, [channelName |-> name, videoTitle |-> title])

\* getSubscriberCount() / getMemberCount()
getSubscriberCount(list) == Len(list)

\* channel.subscribe(observer)
Subscribe ==
    \E c \in Channels, o \in Observers :
        LET r == subscribe(observers[c], o)
        IN  /\ observers' = [observers EXCEPT ![c] = r.observers]
            /\ membership' = [membership EXCEPT ![c][o] = "in"]
            /\ joined' = [joined EXCEPT
                              ![c] = IF membership[c][o] = "in"
                                     THEN @ ELSE Append(@, o)]
            /\ channelLast' = [NoChannelCall EXCEPT
                                   !.op = "subscribe", !.channel = c,
                                   !.observer = o, !.before = observers[c],
                                   !.said = r.said, !.outcome = "returned"]
            /\ UNCHANGED outsideChannels

\* channel.unsubscribe(observer)
Unsubscribe ==
    \E c \in Channels, o \in Observers :
        LET r == unsubscribe(observers[c], o)
        IN  /\ observers' = [observers EXCEPT ![c] = r.observers]
            /\ membership' = [membership EXCEPT ![c][o] = "out"]
            /\ joined' = [joined EXCEPT
                              ![c] = SelectSeq(@, LAMBDA x : x # o)]
            /\ channelLast' = [NoChannelCall EXCEPT
                                   !.op = "unsubscribe", !.channel = c,
                                   !.observer = o, !.before = observers[c],
                                   !.said = r.said, !.outcome = "returned"]
            /\ UNCHANGED outsideChannels

\* channel.uploadVideo(title)
UploadVideo ==
    \E c \in Channels, title \in Titles :
        /\ channelLast' = [NoChannelCall EXCEPT
                               !.op = "uploadVideo", !.channel = c,
                               !.before = observers[c],
                               !.said = "Notifying", !.outcome = "returned",
                               !.receipts = uploadVideo(c, observers[c], title)]
        /\ UNCHANGED <<observers, membership, joined, outsideChannels>>

NextChannels ==
    \/ Subscribe
    \/ Unsubscribe
    \/ UploadVideo

SpecChannels == Init /\ [][NextChannels]_vars

----------------------------------------------------------------------------
(* Template Method: HotDrink and its subclasses (09-template-method/code) *)

\* HotDrink objects constructed.
MaxDrinks == 3

\* The concrete subclasses of HotDrink.
DrinkClasses == {"Tea", "Coffee", "BlackCoffee", "HotChocolate"}

\* The hook without the subclasses' overrides: HotDrink's default everywhere.
wantsCondimentsDefault(cls) == TRUE

\* wantsCondiments(): HotDrink returns true; BlackCoffee and HotChocolate
\* override it to return false.
wantsCondiments(cls) ==
    CASE cls = "BlackCoffee" -> FALSE
      [] cls = "HotChocolate" -> FALSE
      [] OTHER -> TRUE

\* boilWater() and pourInCup(), the fixed steps: what they log.
boilWater == "  Boiling water..."
pourInCup == "  Pouring into cup..."

\* brew() of each subclass: what it logs.
brew(cls) ==
    CASE cls = "Tea" -> "  Steeping tea bag for 3 minutes"
      [] cls = "Coffee" -> "  Dripping coffee through filter"
      [] cls = "BlackCoffee" -> "  Dripping coffee through filter"
      [] cls = "HotChocolate" -> "  Melting chocolate into hot water"

\* addCondiments() of each subclass: what it logs.
addCondiments(cls) ==
    CASE cls = "Tea" -> "  Adding lemon"
      [] cls = "Coffee" -> "  Adding milk and sugar"
      [] cls = "BlackCoffee" -> "  Adding milk and sugar"
      [] cls = "HotChocolate" -> "  Adding whipped cream"

\* make() with pourInCup moved before brew.
makePourFirst(cls) ==
    LET wanted == wantsCondiments(cls)
    IN  [steps |-> <<"boilWater", "pourInCup", "brew">>
                     \o (IF wanted THEN <<"addCondiments">> ELSE <<>>),
         wanted |-> <<wanted>>,
         lines |-> <<boilWater, pourInCup, brew(cls)>>
                     \o (IF wanted THEN <<addCondiments(cls)>> ELSE <<>>)]

\* make(), the template method: the step methods it calls in order, what the
\* hook returned, and the console lines.
make(cls) ==
    LET wanted == wantsCondiments(cls)
    IN  [steps |-> <<"boilWater", "brew", "pourInCup">>
                     \o (IF wanted THEN <<"addCondiments">> ELSE <<>>),
         wanted |-> <<wanted>>,
         lines |-> <<boilWater, brew(cls), pourInCup>>
                     \o (IF wanted THEN <<addCondiments(cls)>> ELSE <<>>)]

\* new Tea(), new Coffee(), new BlackCoffee(), new HotChocolate()
NewDrink ==
    /\ Len(drinks) < MaxDrinks
    /\ \E cls \in DrinkClasses : drinks' = Append(drinks, cls)
    /\ UNCHANGED <<made, outsideDrinks>>

\* drink.make()
Make ==
    \E d \in 1..Len(drinks) :
        LET r == make(drinks[d])
        IN  /\ made' = [drink |-> d, cls |-> drinks[d], steps |-> r.steps,
                        wanted |-> r.wanted, lines |-> r.lines]
            /\ UNCHANGED <<drinks, outsideDrinks>>

NextDrinks ==
    \/ NewDrink
    \/ Make

SpecDrinks == Init /\ [][NextDrinks]_vars

----------------------------------------------------------------------------
(* Facade: HomeTheaterFacade over TV, SoundSystem, StreamingPlayer and     *)
(* RoomLights, and the demo script that drives them by hand                *)

\* Movies the client watches.
Movies == {"The Matrix", "Inception", "Interstellar"}

\* One call on a subsystem object; a number argument is written as the
\* subsystem prints it.
Call(target, method, arg) == [target |-> target, method |-> method, arg |-> arg]

\* watchMovie with the TV switched on before the lights are dimmed.
watchMovieTvFirst(movie) ==
    [said |-> <<"[Facade] Starting movie", "[Facade] Enjoy the movie!">>,
     calls |-> << Call("tv", "turnOn", ""),
                  Call("lights", "dim", "20"),
                  Call("tv", "setInput", "HDMI 1"),
                  Call("sound", "turnOn", ""),
                  Call("sound", "setMode", "surround"),
                  Call("sound", "setVolume", "50"),
                  Call("player", "turnOn", ""),
                  Call("player", "play", movie) >>]

\* watchMovie(movie): the facade's own two lines and the subsystem calls
\* between them.
watchMovie(movie) ==
    [said |-> <<"[Facade] Starting movie", "[Facade] Enjoy the movie!">>,
     calls |-> << Call("lights", "dim", "20"),
                  Call("tv", "turnOn", ""),
                  Call("tv", "setInput", "HDMI 1"),
                  Call("sound", "turnOn", ""),
                  Call("sound", "setMode", "surround"),
                  Call("sound", "setVolume", "50"),
                  Call("player", "turnOn", ""),
                  Call("player", "play", movie) >>]

\* endMovie()
endMovie ==
    [said |-> <<"[Facade] Shutting down...", "[Facade] All done!">>,
     calls |-> << Call("player", "turnOff", ""),
                  Call("sound", "turnOff", ""),
                  Call("tv", "turnOff", ""),
                  Call("lights", "brighten", "") >>]

\* The statements of the script that watches and stops a movie by hand.
ManualSteps(movie) ==
    << Call("lights", "dim", "20"),
       Call("tv", "turnOn", ""),
       Call("tv", "setInput", "HDMI 1"),
       Call("sound", "turnOn", ""),
       Call("sound", "setMode", "surround"),
       Call("sound", "setVolume", "50"),
       Call("player", "turnOn", ""),
       Call("player", "play", movie),
       Call("player", "turnOff", ""),
       Call("sound", "turnOff", ""),
       Call("tv", "turnOff", ""),
       Call("lights", "brighten", "") >>

\* The next statement of the manual script; its first statement fixes the
\* movie.
ManualStep ==
    /\ manual.pc < Len(ManualSteps(manual.movie))
    /\ \E movie \in Movies :
         /\ manual.pc > 0 => movie = manual.movie
         /\ manual' = [pc |-> manual.pc + 1,
                       movie |-> movie,
                       calls |-> Append(manual.calls,
                                        ManualSteps(movie)[manual.pc + 1])]
    /\ UNCHANGED <<facade, outsideTheater>>

\* theater.watchMovie(movie)
WatchMovie ==
    \E movie \in Movies :
        LET r == watchMovie(movie)
        IN  /\ facade' = [op |-> "watchMovie", movie |-> movie,
                          calls |-> r.calls, said |-> r.said]
            /\ UNCHANGED <<manual, outsideTheater>>

\* theater.endMovie()
EndMovie ==
    /\ facade' = [op |-> "endMovie", movie |-> "none",
                  calls |-> endMovie.calls, said |-> endMovie.said]
    /\ UNCHANGED <<manual, outsideTheater>>

NextTheater ==
    \/ ManualStep
    \/ WatchMovie
    \/ EndMovie

SpecTheater == Init /\ [][NextTheater]_vars

----------------------------------------------------------------------------
(* Strategy: Navigator and the RouteStrategy classes (strategy/code) *)

\* Navigator objects constructed.
MaxNavigators == 2

\* The RouteStrategy classes; their objects have no fields.
Strategies ==
    {"FastestRouteStrategy", "ShortestRouteStrategy", "ScenicRouteStrategy"}

\* Places the client navigates between.
Places == {"Tokyo", "Kamakura"}

\* strategy.getName()
getName(strategy) ==
    CASE strategy = "FastestRouteStrategy" -> "Fastest Route (Highway)"
      [] strategy = "ShortestRouteStrategy" -> "Shortest Route (Local Roads)"
      [] strategy = "ScenicRouteStrategy" -> "Scenic Route (Coastal Road)"

\* strategy.calculateRoute(origin, destination); the description is kept in
\* the pieces the template string joins.
calculateRoute(strategy, origin, destination) ==
    CASE strategy = "FastestRouteStrategy" ->
           [path |-> <<origin, "Highway entrance", "Expressway", "Highway exit",
                       destination>>,
            distanceKm |-> 65,
            estimatedMinutes |-> 50,
            description |-> <<"Highway route from ", origin, " to ", destination,
                              ". Uses expressway for fastest travel time.">>]
      [] strategy = "ShortestRouteStrategy" ->
           [path |-> <<origin, "Local road A", "Town center", "Local road B",
                       destination>>,
            distanceKm |-> 52,
            estimatedMinutes |-> 90,
            description |-> <<"Direct route from ", origin, " to ", destination,
                              ". Shortest distance via local roads.">>]
      [] strategy = "ScenicRouteStrategy" ->
           [path |-> <<origin, "Coastal road", "Beach viewpoint", "Cliff drive",
                       "Harbor", destination>>,
            distanceKm |-> 70,
            estimatedMinutes |-> 120,
            description |-> <<"Scenic coastal route from ", origin, " to ",
                              destination,
                              ". Beautiful ocean views along the way.">>]

\* constructor(strategy): this.strategy = strategy
Navigator(strategy) == [strategy |-> strategy]

\* setStrategy that drops its argument.
setStrategyIgnored(navigator, strategy) == navigator

\* setStrategy(strategy): this.strategy = strategy
setStrategy(navigator, strategy) == [navigator EXCEPT !.strategy = strategy]

\* navigate(origin, destination): what it logs, what it returns and the
\* Navigator afterwards.
navigate(navigator, origin, destination) ==
    LET result == calculateRoute(navigator.strategy, origin, destination)
    IN  [navigator |-> navigator,
         lines |-> << <<"  Strategy: ", getName(navigator.strategy)>>,
                      <<"  From: ", origin>>,
                      <<"  To: ", destination>>,
                      <<"  Path: ">> \o result.path,
                      <<"  Distance: ", result.distanceKm, " km">>,
                      <<"  Time: ", result.estimatedMinutes, " minutes">>,
                      <<"  ">> \o result.description >>,
         returned |-> <<result>>]

\* new Navigator(strategy)
NewNavigator ==
    /\ Len(navigators) < MaxNavigators
    /\ \E strategy \in Strategies :
         /\ navigators' = Append(navigators, Navigator(strategy))
         /\ installed' = Append(installed, strategy)
         /\ navLast' = [NoNavigatorCall EXCEPT
                            !.op = "new Navigator",
                            !.navigator = Len(navigators) + 1]
    /\ UNCHANGED outsideNavigators

\* navigator.setStrategy(strategy)
SetStrategy ==
    \E n \in 1..Len(navigators), strategy \in Strategies :
        /\ navigators' = [navigators EXCEPT ![n] = setStrategy(@, strategy)]
        /\ installed' = [installed EXCEPT ![n] = strategy]
        /\ navLast' = [NoNavigatorCall EXCEPT
                           !.op = "setStrategy", !.navigator = n,
                           !.strategyBefore = navigators[n].strategy]
        /\ UNCHANGED outsideNavigators

\* navigator.navigate(origin, destination)
Navigate ==
    \E n \in 1..Len(navigators), origin \in Places, destination \in Places :
        LET r == navigate(navigators[n], origin, destination)
        IN  /\ navigators' = [navigators EXCEPT ![n] = r.navigator]
            /\ navLast' = [NoNavigatorCall EXCEPT
                               !.op = "navigate", !.navigator = n,
                               !.origin = origin, !.destination = destination,
                               !.strategyBefore = navigators[n].strategy,
                               !.lines = r.lines, !.returned = r.returned]
            /\ UNCHANGED <<installed, outsideNavigators>>

NextNavigators ==
    \/ NewNavigator
    \/ SetStrategy
    \/ Navigate

SpecNavigators == Init /\ [][NextNavigators]_vars

----------------------------------------------------------------------------
(* Factory: NotificationFactory and the Notification classes (factory/code) *)

\* Notification objects constructed.
MaxNotifications == 2

\* enum NotificationType, by value.
NotificationTypes == {"email", "sms", "push", "slack"}

\* Values a caller can pass at run time that the enum does not have.
UnsupportedTypes == {"fax", "EMAIL"}

\* Recipients the demo uses.
Recipients == {"user@example.com", "+1-234-567-8900"}

\* Lengths of the messages sent: empty, short, and around the SMS limit.
MessageLengths == {0, 3, 157, 159, 160, 161, 165}

\* A message of n characters whose character at each place tells the place.
Text(n, shift) == [i \in 1..n |-> Digits[((i + shift) % 10) + 1]]

SentMessages == {Text(n, shift) : n \in MessageLengths, shift \in {0, 3}}

\* new EmailNotification(email), new SMSNotification(phone), ...: the one
\* private field of each class is named recipient here.
NewNotification(cls, recipient) == [cls |-> cls, recipient |-> recipient]

\* getType()
getType(notification) ==
    CASE notification.cls = "EmailNotification" -> "email"
      [] notification.cls = "SMSNotification" -> "sms"
      [] notification.cls = "PushNotification" -> "push"
      [] notification.cls = "SlackNotification" -> "slack"

\* getRecipient()
getRecipient(notification) == notification.recipient

\* The object the factory hands out, added to the heap.
Created(heap, notification) ==
    [heap |-> Append(heap, notification), outcome |-> "returned",
     error |-> <<>>, returned |-> Len(heap) + 1]

\* throw new Error(`Unknown notification type: ${type}`)
UnknownType(heap, type) ==
    [heap |-> heap, outcome |-> "threw",
     error |-> <<"Unknown notification type: ", type>>, returned |-> 0]

\* create whose sms case constructs the class of the next case.
createShifted(heap, type, recipient) ==
    CASE type = "email" -> Created(heap, NewNotification("EmailNotification", recipient))
      [] type = "sms" -> Created(heap, NewNotification("PushNotification", recipient))
      [] type = "push" -> Created(heap, NewNotification("PushNotification", recipient))
      [] type = "slack" -> Created(heap, NewNotification("SlackNotification", recipient))
      [] OTHER -> UnknownType(heap, type)

\* create whose default case falls back to an email notification.
createFallback(heap, type, recipient) ==
    CASE type = "email" -> Created(heap, NewNotification("EmailNotification", recipient))
      [] type = "sms" -> Created(heap, NewNotification("SMSNotification", recipient))
      [] type = "push" -> Created(heap, NewNotification("PushNotification", recipient))
      [] type = "slack" -> Created(heap, NewNotification("SlackNotification", recipient))
      [] OTHER -> Created(heap, NewNotification("EmailNotification", recipient))

\* create(type, recipient): the switch over the type.
create(heap, type, recipient) ==
    CASE type = "email" -> Created(heap, NewNotification("EmailNotification", recipient))
      [] type = "sms" -> Created(heap, NewNotification("SMSNotification", recipient))
      [] type = "push" -> Created(heap, NewNotification("PushNotification", recipient))
      [] type = "slack" -> Created(heap, NewNotification("SlackNotification", recipient))
      [] OTHER -> UnknownType(heap, type)

\* createEmail, createSMS, createPush, createSlack
createEmail(heap, email) == create(heap, "email", email)
createSMS(heap, phone) == create(heap, "sms", phone)
createPush(heap, deviceId) == create(heap, "push", deviceId)
createSlack(heap, channelId) == create(heap, "slack", channelId)

\* The SMS cut that keeps 160 characters before the dots.
truncatedAt160(message) ==
    IF Len(message) > 160
    THEN SubSeq(message, 1, 160) \o <<".", ".", ".">>
    ELSE message

\* message.length > 160 ? message.substring(0, 157) + "..." : message
truncated(message) ==
    IF Len(message) > 160
    THEN SubSeq(message, 1, 157) \o <<".", ".", ".">>
    ELSE message

\* send(message) of each class: the console lines, each a label followed by
\* the characters put after it.
notificationSend(notification, message) ==
    CASE notification.cls = "EmailNotification" ->
           << <<"[EMAIL] Sending to ", notification.recipient>>,
              <<"        Subject: Notification">>,
              <<"        Body: ">> \o message,
              <<"        Status: Sent successfully!">> >>
      [] notification.cls = "SMSNotification" ->
           << <<"[SMS] Sending to ", notification.recipient>>,
              <<"      Message: ">> \o truncated(message),
              <<"      Status: Sent successfully!">> >>
      [] notification.cls = "PushNotification" ->
           << <<"[PUSH] Sending to device ", notification.recipient>>,
              <<"       Alert: ">> \o message,
              <<"       Status: Sent successfully!">> >>
      [] notification.cls = "SlackNotification" ->
           << <<"[SLACK] Sending to channel ", notification.recipient>>,
              <<"        Message: ">> \o message,
              <<"        Status: Sent successfully!">> >>

\* What remains of the heap bound after a call.
Fits(heap) == Len(heap) <= MaxNotifications

\* factory.create(type, recipient)
Create ==
    \E type \in NotificationTypes \cup UnsupportedTypes, recipient \in Recipients :
        LET r == create(notifications, type, recipient)
        IN  /\ Fits(r.heap)
            /\ notifications' = r.heap
            /\ factoryLast' = [NoFactoryCall EXCEPT
                                   !.op = "create", !.type = type,
                                   !.recipient = recipient,
                                   !.countBefore = Len(notifications),
                                   !.outcome = r.outcome, !.error = r.error,
                                   !.returned = r.returned]
            /\ UNCHANGED outsideFactory

\* factory.createEmail(email), createSMS(phone), createPush(deviceId),
\* createSlack(channelId)
CreateByName ==
    \E op \in {"createEmail", "createSMS", "createPush", "createSlack"},
       recipient \in Recipients :
        LET r == CASE op = "createEmail" -> createEmail(notifications, recipient)
                   [] op = "createSMS" -> createSMS(notifications, recipient)
                   [] op = "createPush" -> createPush(notifications, recipient)
                   [] op = "createSlack" -> createSlack(notifications, recipient)
        IN  /\ Fits(r.heap)
            /\ notifications' = r.heap
            /\ factoryLast' = [NoFactoryCall EXCEPT
                                   !.op = op, !.recipient = recipient,
                                   !.countBefore = Len(notifications),
                                   !.outcome = r.outcome, !.error = r.error,
                                   !.returned = r.returned]
            /\ UNCHANGED outsideFactory

\* notification.send(message)
NotificationSend ==
    \E n \in 1..Len(notifications), message \in SentMessages :
        /\ factoryLast' = [NoFactoryCall EXCEPT
                               !.op = "send", !.target = n, !.message = message,
                               !.outcome = "returned",
                               !.lines = notificationSend(notifications[n], message)]
        /\ UNCHANGED <<notifications, outsideFactory>>

NextFactory ==
    \/ Create
    \/ CreateByName
    \/ NotificationSend

SpecFactory == Init /\ [][NextFactory]_vars

----------------------------------------------------------------------------
(* Observer: an observer that unsubscribes itself inside its callback *)

\* The observers of class BadObserver: update(event) calls
\* channel.unsubscribe(this) on the channel that is notifying.
BadObservers == {"Bob"}

\* observer.update(event) as seen by the channel: what becomes of
\* this.observers during the call.
update(list, observer) ==
    IF observer \in BadObservers THEN unsubscribe(list, observer).observers ELSE list

RECURSIVE notifyOverCopy(_, _, _, _)

\* notify looping over a copy of this.observers taken at its start: whoever
\* is still in the array and has not had the event is next.
notifyOverCopy(list, event, index, receipts) ==
    LET seen == {receipts[i].observer : i \in 1..Len(receipts)}
        rest == SelectSeq(list, LAMBDA x : x \notin seen)
    IN  IF rest = <<>>
        THEN [observers |-> list, receipts |-> receipts]
        ELSE notifyOverCopy(update(list, Head(rest)), event, index + 1,
                            Append(receipts,
                                   [observer |-> Head(rest), event |-> event]))

RECURSIVE notifyLive(_, _, _, _)

\* notify(event), the for...of loop over this.observers itself: the array
\* iterator reads this.observers[index] while index < this.observers.length,
\* and each update(event) may change the array under it.
notifyLive(list, event, index, receipts) ==
    IF index >= Len(list)
    THEN [observers |-> list, receipts |-> receipts]
    ELSE LET o == list[index + 1]
         IN  notifyLive(update(list, o), event, index + 1,
                        Append(receipts, [observer |-> o, event |-> event]))

\* channel.uploadVideo(title) with BadObservers among the subscribers.
UploadVideoReentrant ==
    \E c \in Channels, title \in Titles :
        LET r == notifyLive(observers[c],
                            [channelName |-> c, videoTitle |-> title], 0, <<>>)
            left == {r.receipts[i].observer : i \in 1..Len(r.receipts)}
                        \cap BadObservers
        IN  /\ observers' = [observers EXCEPT ![c] = r.observers]
            /\ membership' = [membership EXCEPT
                                  ![c] = [o \in Observers |->
                                             IF o \in left THEN "out" ELSE @[o]]]
            /\ joined' = [joined EXCEPT ![c] = SelectSeq(@, LAMBDA x : x \notin left)]
            /\ channelLast' = [NoChannelCall EXCEPT
                                   !.op = "uploadVideo", !.channel = c,
                                   !.before = observers[c],
                                   !.said = "Notifying", !.outcome = "returned",
                                   !.receipts = r.receipts]
            /\ UNCHANGED outsideChannels

NextReentrant ==
    \/ Subscribe
    \/ Unsubscribe
    \/ UploadVideoReentrant

SpecReentrant == Init /\ [][NextReentrant]_vars

----------------------------------------------------------------------------
(* What the claims speak about *)

RECURSIVE LinksFrom(_, _)

\* The links reached from self by following this.wrapped, outermost first.
LinksFrom(heap, self) ==
    IF heap[self].cls = "SimpleNotifier" \/ heap[self].wrapped = Undefined
    THEN <<self>>
    ELSE <<self>> \o LinksFrom(heap, heap[self].wrapped)

\* The classes of those links, outermost first.
ClassesFrom(heap, self) ==
    LET c == LinksFrom(heap, self) IN [k \in 1..Len(c) |-> heap[c[k]].cls]

\* The chain from self ends in a SimpleNotifier.
IsChain(heap, self) ==
    LET c == LinksFrom(heap, self) IN heap[c[Len(c)]].cls = "SimpleNotifier"

\* The last call was a send on a chain (resp. a getDescription on a chain).
SentOnChain == last.op = "send" /\ IsChain(objs, last.root)
DescribedChain == last.op = "getDescription" /\ IsChain(objs, last.root)

\* The string the terminal received in the last call.
Delivered == last.calls[Len(last.calls)].received

\* The last call was a send that reached the console, on a chain of these classes.
SentThrough(classes) ==
    /\ SentOnChain
    /\ last.outcome = "returned"
    /\ ClassesFrom(objs, last.root) = classes

OrderA == <<"UrgentDecorator", "TimestampDecorator", "SimpleNotifier">>
OrderB == <<"TimestampDecorator", "UrgentDecorator", "SimpleNotifier">>
OrderAHeap == <<SimpleNotifier, NotifierDecorator("TimestampDecorator", 1),
                NotifierDecorator("UrgentDecorator", 2)>>
OrderBHeap == <<SimpleNotifier, NotifierDecorator("UrgentDecorator", 1),
                NotifierDecorator("TimestampDecorator", 2)>>

\* The messages in capitals, written out.
ServerIsRunningShouted == <<"S", "E", "R", "V", "E", "R", " ", "I", "S", " ",
                            "R", "U", "N", "N", "I", "N", "G", ".">>
DatabaseConnectionLostShouted ==
    <<"D", "A", "T", "A", "B", "A", "S", "E", " ", "C", "O", "N", "N", "E", "C",
      "T", "I", "O", "N", " ", "L", "O", "S", "T", "!">>
Shouted(message) ==
    CASE message = MsgServerIsRunning -> ServerIsRunningShouted
      [] message = MsgDatabaseConnectionLost -> DatabaseConnectionLostShouted
      [] OTHER -> <<"H", "I", "!">>

----------------------------------------------------------------------------
(* C1 *)

\* C1: getDescription() on the outermost link of a chain returns the wrappers'
\* class names, outermost first, each followed by "(", then the terminal's
\* label, then one ")" per wrapper.
C1_DescriptionNestsOutermostFirst ==
    DescribedChain =>
        LET classes == ClassesFrom(objs, last.root)
            n == Len(classes) - 1
            opening == [j \in 1..(2 * n) |->
                            IF j % 2 = 1 THEN classes[(j + 1) \div 2] ELSE "("]
            closing == [j \in 1..n |-> ")"]
        IN  /\ last.outcome = "returned"
            /\ last.value = opening \o <<"SimpleNotifier">> \o closing

C1_Witness ==
    /\ DescribedChain
    /\ last.value = <<"UrgentDecorator", "(", "TimestampDecorator", "(",
                      "SimpleNotifier", ")", ")">>

----------------------------------------------------------------------------
(* C2 *)

----------------------------------------------------------------------------
(* C3 *)

\* C3: for the same message and the same clock reading, the chain with
\* UrgentDecorator around TimestampDecorator and the chain with
\* TimestampDecorator around UrgentDecorator write different lines.
C3_OrderChangesTheOutput ==
    /\ SentThrough(OrderA) =>
          last.lines # send(OrderBHeap, 3, last.message, last.now, TRUE).lines
    /\ SentThrough(OrderB) =>
          last.lines # send(OrderAHeap, 3, last.message, last.now, TRUE).lines

C3_Witness ==
    /\ SentThrough(OrderA)
    /\ send(OrderBHeap, 3, last.message, last.now, TRUE).outcome = "returned"

----------------------------------------------------------------------------
(* C4 *)

----------------------------------------------------------------------------
(* C5 *)

----------------------------------------------------------------------------
(* C6 *)

\* The last call was a send that reached the console through two
\* EmojiDecorators with different emojis around a SimpleNotifier.
SentThroughTwoEmojis ==
    /\ SentThrough(<<"EmojiDecorator", "EmojiDecorator", "SimpleNotifier">>)
    /\ objs[last.root].emoji # objs[objs[last.root].wrapped].emoji

\* C6, as claimed: both markers are applied and the outermost decorator's
\* marker is leftmost.
C6_Claimed_OutermostMarkerFirst ==
    SentThroughTwoEmojis =>
        LET outer == objs[last.root]
            inner == objs[outer.wrapped]
        IN  Delivered = outer.emoji \o <<" ">> \o inner.emoji \o <<" ">> \o last.message

\* C6, amended: both markers are applied and the innermost decorator's marker
\* is leftmost; the outermost decorator's marker stands next to the message.
C6_InnermostMarkerFirst ==
    SentThroughTwoEmojis =>
        LET outer == objs[last.root]
            inner == objs[outer.wrapped]
        IN  Delivered = inner.emoji \o <<" ">> \o outer.emoji \o <<" ">> \o last.message

C6_Witness == SentThroughTwoEmojis /\ objs[last.root].emoji = SirenEmoji

----------------------------------------------------------------------------
(* C7 *)

\* The chain from self ends in a wrapper whose successor is missing.
IsBroken(heap, self) == ~IsChain(heap, self)

----------------------------------------------------------------------------
(* C8 *)

\* C8: a send on a chain enters every link's send exactly once, the terminal
\* included, and when the console is available it returns having written
\* exactly one line.
C8_ExactlyOneEmission ==
    SentOnChain =>
        LET c == LinksFrom(objs, last.root) IN
        /\ \A j \in 1..Len(c) :
              Cardinality({k \in 1..Len(last.calls) : last.calls[k].link = c[j]}) = 1
        /\ last.sinkOk => last.outcome = "returned" /\ Len(last.lines) = 1

C8_Witness ==
    /\ SentOnChain
    /\ last.sinkOk
    /\ Len(LinksFrom(objs, last.root)) = 4
    /\ Len(last.lines) = 1

----------------------------------------------------------------------------
(* C9 *)

\* C9: when the terminal's send throws, the send on the outermost link throws
\* the same error the terminal alone throws, whatever the depth of the chain;
\* every link was entered once and nothing was forwarded after the failure.
C9_TerminalFailureReachesCaller ==
    (SentOnChain /\ ~last.sinkOk) =>
        /\ last.outcome = "threw"
        /\ last.error = SimpleNotifierSend(1, last.message, FALSE).error
        /\ last.error = "SinkError"
        /\ last.lines = <<>>
        /\ Len(last.calls) = Len(LinksFrom(objs, last.root))
        /\ objs[last.calls[Len(last.calls)].link].cls = "SimpleNotifier"

C9_Witness ==
    /\ SentOnChain
    /\ ~last.sinkOk
    /\ Len(last.calls) = 3
    /\ last.outcome = "threw"

----------------------------------------------------------------------------
(* C10 *)

\* The last two calls were sends of the same message on the same chain, and
\* both reached the console.
SentTwice == SentOnChain /\ last.repeated /\ last.outcome = "returned"

HasTimestamp(heap, self) ==
    \E k \in 1..Len(ClassesFrom(heap, self)) :
        ClassesFrom(heap, self)[k] = "TimestampDecorator"

\* C10, as claimed: two sends of the same message on the same chain write the
\* same line.
C10_Claimed_SameInputSameOutput == SentTwice => last.lines = last.prevLines

\* C10, amended: two sends of the same message on the same chain write the
\* same line when the clock reads the same second at both calls or the chain
\* holds no TimestampDecorator: the line depends on the chain, the message and
\* the clock only, and on nothing kept from an earlier call.
C10_SameInputAndClockSameOutput ==
    (SentTwice /\ (last.now = last.prevNow \/ ~HasTimestamp(objs, last.root))) =>
        last.lines = last.prevLines

C10_Witness ==
    /\ SentTwice
    /\ HasTimestamp(objs, last.root)
    /\ last.now = last.prevNow
    /\ Len(last.calls) = 3

----------------------------------------------------------------------------
(* C11 *)

----------------------------------------------------------------------------
(* C12 *)

\* The last call was made on a decorator that overrides nothing and wraps a
\* notifier.
CalledPlainDecorator ==
    /\ last.op \in {"send", "getDescription"}
    /\ objs[last.root].cls = "NotifierDecorator"
    /\ objs[last.root].wrapped # Undefined

\* C12: a decorator that overrides neither operation passes the message it
\* received to its successor unchanged, and its send and getDescription end
\* as the same calls on the successor end: same console lines, same returned
\* string, same error.
C12_PlainDecoratorIsTransparent ==
    CalledPlainDecorator =>
        LET successor == objs[last.root].wrapped IN
        /\ last.op = "send" =>
              LET direct == send(objs, successor, last.message, last.now, last.sinkOk)
              IN  /\ last.calls[2].link = successor
                  /\ last.calls[2].received = last.message
                  /\ Tail(last.calls) = direct.calls
                  /\ last.lines = direct.lines
                  /\ last.outcome = direct.outcome
                  /\ last.error = direct.error
        /\ last.op = "getDescription" =>
              LET direct == getDescription(objs, successor)
              IN  /\ last.value = direct.value
                  /\ last.outcome = direct.outcome
                  /\ last.error = direct.error

C12_Witness ==
    /\ CalledPlainDecorator
    /\ last.op = "send"
    /\ last.outcome = "returned"
    /\ Len(last.calls) = 3
    /\ Delivered # last.message

----------------------------------------------------------------------------
(* C13 *)

RECURSIVE WalkFrom(_, _, _)

\* The links visited from self by following this.wrapped for at most fuel
\* steps.
WalkFrom(heap, self, fuel) ==
    IF fuel = 0 \/ heap[self].cls = "SimpleNotifier" \/ heap[self].wrapped = Undefined
    THEN <<self>>
    ELSE <<self>> \o WalkFrom(heap, heap[self].wrapped, fuel - 1)

\* Following the successors from root visits no link twice.
NoLinkTwice(heap, root) ==
    LET w == WalkFrom(heap, root, Len(heap))
    IN  \A j, k \in 1..Len(w) : j # k => w[j] # w[k]

\* Following the successors from root ends at a terminal, the only one met.
EndsAtOneTerminal(heap, root) ==
    LET w == WalkFrom(heap, root, Len(heap))
    IN  /\ heap[w[Len(w)]].cls = "SimpleNotifier"
        /\ Cardinality({k \in 1..Len(w) : heap[w[k]].cls = "SimpleNotifier"}) = 1

\* Following the successors from root ends at a wrapper that was constructed
\* with a missing successor, and meets no terminal.
EndsAtMissingSuccessor(heap, root) ==
    LET w == WalkFrom(heap, root, Len(heap))
    IN  /\ heap[w[Len(w)]].cls # "SimpleNotifier"
        /\ heap[w[Len(w)]].wrapped = Undefined
        /\ w[Len(w)] = 1
        /\ \A k \in 1..Len(w) : heap[w[k]].cls # "SimpleNotifier"

\* No step changes an object that exists, and a wrapper a step constructs
\* refers to the successor the constructor was given.
LinksAreKept ==
    /\ Len(objs') >= Len(objs)
    /\ \A i \in 1..Len(objs) : objs'[i] = objs[i]
    /\ Len(objs') > Len(objs) =>
          \/ objs'[Len(objs')].cls = "SimpleNotifier"
          \/ objs'[Len(objs')].wrapped = SuccessorArg

----------------------------------------------------------------------------
(* C14 *)

\* The last call was a send of "Database connection lost!" that reached the
\* console through EmojiDecorator(UrgentDecorator(TimestampDecorator(
\* SimpleNotifier)), police light).
SentThroughStacked ==
    /\ SentThrough(<<"EmojiDecorator", "UrgentDecorator", "TimestampDecorator",
                     "SimpleNotifier">>)
    /\ objs[last.root].emoji = SirenEmoji
    /\ last.message = MsgDatabaseConnectionLost

\* C14: that send writes the one line
\* "    [Send] [<timestamp>] URGENT: <police light> DATABASE CONNECTION LOST!":
\* the timestamp as formatted, then the marker, then the emoji, then the
\* message in capitals.
C14_StackedOutput ==
    SentThroughStacked =>
        last.lines =
            << <<" ", " ", " ", " ", "[", "S", "e", "n", "d", "]", " ">>
               \o <<"[">> \o toLocaleString(last.now) \o <<"]", " ">>
               \o <<"U", "R", "G", "E", "N", "T", ":", " ">>
               \o <<"U+1F6A8", " ">>
               \o <<"D", "A", "T", "A", "B", "A", "S", "E", " ", "C", "O", "N", "N", "E", "C", "T", "I", "O", "N", " ", "L", "O", "S", "T", "!">> >>

C14_Witness == SentThroughStacked /\ last.now > ClockStart

----------------------------------------------------------------------------
(* C15 *)

\* C15: across any sequence of UserCart.getInstance() calls, by the client
\* and by Purchase constructors, every call returns the same object, and at
\* most one UserCart is ever constructed.
C15_OneSharedCart ==
    /\ Len(userCarts) <= 1
    /\ \A i \in 1..Len(refs) : refs[i] = instance
    /\ \A p \in 1..Len(purchases) : purchases[p].cart = instance
    /\ cartLast.op \in {"getInstance", "new Purchase"} => cartLast.returned = instance

\* Three references and a Purchase were obtained, with an item added between.
C15_Witness ==
    /\ Len(refs) = 3
    /\ Len(purchases) >= 1
    /\ cartLast.op = "getInstance"
    /\ userCarts[instance].items # <<>>

----------------------------------------------------------------------------
(* C16, C17 *)

\* The update calls the last upload made on an observer.
ReceiptsOf(o) ==
    {i \in 1..Len(channelLast.receipts) : channelLast.receipts[i].observer = o}

\* C16: an upload notifies no observer whose last completed call on the
\* channel was unsubscribe (leave), and notifies every observer whose last
\* completed call on it was subscribe (join).
C16_LeaversAreNotNotified ==
    channelLast.op = "uploadVideo" =>
        \A o \in Observers :
            /\ membership[channelLast.channel][o] = "out" => ReceiptsOf(o) = {}
            /\ membership[channelLast.channel][o] = "in" => ReceiptsOf(o) # {}

\* An upload on a channel that one observer has left and two are still
\* subscribed to.
C16_Witness ==
    /\ channelLast.op = "uploadVideo"
    /\ \E o \in Observers : membership[channelLast.channel][o] = "out"
    /\ Len(channelLast.receipts) = 2

\* C17: no channel's observer list holds an observer twice, and subscribing
\* (joining) an observer that is in the list leaves the list and the
\* subscriber count as they were and reports "already subscribed".
C17_NoDuplicateSubscription ==
    /\ \A c \in Channels :
         \A i, j \in 1..Len(observers[c]) :
             observers[c][i] = observers[c][j] => i = j
    /\ (channelLast.op = "subscribe"
            /\ includes(channelLast.before, channelLast.observer)) =>
         /\ observers[channelLast.channel] = channelLast.before
         /\ getSubscriberCount(observers[channelLast.channel])
              = getSubscriberCount(channelLast.before)
         /\ channelLast.said = "is already subscribed."

\* A subscribe of the first of three subscribed observers.
C17_Witness ==
    /\ channelLast.op = "subscribe"
    /\ Len(channelLast.before) = 3
    /\ channelLast.before[1] = channelLast.observer

----------------------------------------------------------------------------
(* C18, C19 *)

\* The places of a step method in the calls of the last make().
StepsNamed(name) == {i \in 1..Len(made.steps) : made.steps[i] = name}

\* C18 as claimed: every make() performs boilWater, brew, pourInCup and
\* addCondiments, in this order.
C18_Claimed_AlwaysFourSteps ==
    made.drink # 0 =>
        made.steps = <<"boilWater", "brew", "pourInCup", "addCondiments">>

\* C18: every make() performs boilWater, brew and pourInCup in this order,
\* each once, and then at most addCondiments, once; no subclass gets the
\* steps into another order.
C18_StepsKeepTheirOrder ==
    made.drink # 0 =>
        /\ SubSeq(made.steps, 1, 3) = <<"boilWater", "brew", "pourInCup">>
        /\ \/ Len(made.steps) = 3
           \/ Len(made.steps) = 4 /\ made.steps[4] = "addCondiments"
        /\ made.lines[1] = boilWater
        /\ made.lines[2] = brew(made.cls)
        /\ made.lines[3] = pourInCup

\* A BlackCoffee was made: three steps, no condiments.
C18_Witness ==
    /\ made.cls = "BlackCoffee"
    /\ Len(made.steps) = 3
    /\ Len(drinks) = 3

\* C19: make() calls addCondiments exactly when wantsCondiments() returned
\* true, once and after pourInCup; Tea and Coffee make() always adds
\* condiments, BlackCoffee and HotChocolate make() never does.
C19_CondimentsFollowTheHook ==
    made.drink # 0 =>
        /\ made.wanted \in {<<TRUE>>, <<FALSE>>}
        /\ StepsNamed("addCondiments") # {} <=> made.wanted = <<TRUE>>
        /\ Cardinality(StepsNamed("addCondiments")) <= 1
        /\ \A i \in StepsNamed("addCondiments") :
             \E j \in StepsNamed("pourInCup") : j < i
        /\ made.cls \in {"Tea", "Coffee"} =>
             /\ StepsNamed("addCondiments") # {}
             /\ made.lines[Len(made.lines)] = addCondiments(made.cls)
        /\ made.cls \in {"BlackCoffee", "HotChocolate"} =>
             /\ StepsNamed("addCondiments") = {}
             /\ made.lines[Len(made.lines)] = pourInCup

\* A HotChocolate was made next to a Tea.
C19_Witness ==
    /\ made.cls = "HotChocolate"
    /\ made.wanted = <<FALSE>>
    /\ \E d \in 1..Len(drinks) : drinks[d] = "Tea"

----------------------------------------------------------------------------
(* C20 *)

\* C20: watchMovie(movie) issues lights.dim(20), tv.turnOn,
\* tv.setInput("HDMI 1"), sound.turnOn, sound.setMode("surround"),
\* sound.setVolume(50), player.turnOn, player.play(movie) and nothing else,
\* in this order, which is what the first eight statements of the manual
\* script issue for the same movie; endMovie() issues player.turnOff,
\* sound.turnOff, tv.turnOff, lights.brighten, which is what the last four
\* statements of the script issue.
C20_FacadeIssuesTheManualCalls ==
    /\ facade.op = "watchMovie" =>
         /\ Len(facade.calls) = 8
         /\ [i \in 1..8 |-> <<facade.calls[i].target, facade.calls[i].method,
                              facade.calls[i].arg>>]
              = << <<"lights", "dim", "20">>, <<"tv", "turnOn", "">>,
                   <<"tv", "setInput", "HDMI 1">>, <<"sound", "turnOn", "">>,
                   <<"sound", "setMode", "surround">>,
                   <<"sound", "setVolume", "50">>, <<"player", "turnOn", "">>,
                   <<"player", "play", facade.movie>> >>
         /\ (manual.pc >= 8 /\ manual.movie = facade.movie) =>
              facade.calls = SubSeq(manual.calls, 1, 8)
    /\ facade.op = "endMovie" =>
         /\ Len(facade.calls) = 4
         /\ [i \in 1..4 |-> <<facade.calls[i].target, facade.calls[i].method>>]
              = << <<"player", "turnOff">>, <<"sound", "turnOff">>,
                   <<"tv", "turnOff">>, <<"lights", "brighten">> >>
         /\ manual.pc = 12 => facade.calls = SubSeq(manual.calls, 9, 12)

\* The script ran to its end and the facade then played the same movie.
C20_Witness ==
    /\ facade.op = "watchMovie"
    /\ manual.pc = 12
    /\ manual.movie = facade.movie

----------------------------------------------------------------------------
(* C21 *)

\* C21: navigate(origin, destination) returns what calculateRoute(origin,
\* destination) of the strategy the client passed last (to setStrategy, or to
\* the constructor when setStrategy was never called) returns, and leaves the
\* Navigator's strategy as it was.
C21_NavigateUsesInstalledStrategy ==
    navLast.op = "navigate" =>
        LET n == navLast.navigator
        IN  /\ navLast.returned =
                 <<calculateRoute(installed[n], navLast.origin, navLast.destination)>>
            /\ navigators[n].strategy = navLast.strategyBefore
            /\ navigators[n].strategy = installed[n]

\* A navigate on the second Navigator, whose strategy differs from the first
\* one's, from one place to another.
C21_Witness ==
    /\ navLast.op = "navigate"
    /\ navLast.navigator = 2
    /\ installed[2] = "ScenicRouteStrategy"
    /\ installed[1] = "FastestRouteStrategy"
    /\ navLast.origin # navLast.destination

----------------------------------------------------------------------------
(* C22, C23, C30 *)

\* The type a factory call asked for: create's argument, or the one in the
\* name of createEmail, createSMS, createPush, createSlack.
RequestedType ==
    CASE factoryLast.op = "create" -> factoryLast.type
      [] factoryLast.op = "createEmail" -> "email"
      [] factoryLast.op = "createSMS" -> "sms"
      [] factoryLast.op = "createPush" -> "push"
      [] factoryLast.op = "createSlack" -> "slack"
      [] OTHER -> "none"

\* C22: create(type, recipient) with one of the four NotificationType values
\* returns one new notification whose getType() is the value asked for and
\* whose getRecipient() is the recipient given; createEmail, createSMS,
\* createPush and createSlack return what create returns for their type.
C22_CreateReturnsRequestedKind ==
    RequestedType \in NotificationTypes =>
        /\ factoryLast.outcome = "returned"
        /\ factoryLast.returned = factoryLast.countBefore + 1
        /\ Len(notifications) = factoryLast.countBefore + 1
        /\ getType(notifications[factoryLast.returned]) = RequestedType
        /\ getRecipient(notifications[factoryLast.returned]) = factoryLast.recipient
        /\ LET direct == create(SubSeq(notifications, 1, factoryLast.countBefore),
                                RequestedType, factoryLast.recipient)
           IN  /\ direct.heap = notifications
               /\ direct.returned = factoryLast.returned

\* createSMS made the second notification, after one of another class.
C22_Witness ==
    /\ factoryLast.op = "createSMS"
    /\ factoryLast.returned = 2
    /\ notifications[1].cls = "SlackNotification"
    /\ notifications[1].recipient # factoryLast.recipient

\* C23: create with a type outside NotificationType throws an Error that
\* names the type, returns nothing and constructs nothing.
C23_UnknownTypeThrows ==
    (factoryLast.op = "create" /\ factoryLast.type \notin NotificationTypes) =>
        /\ factoryLast.outcome = "threw"
        /\ factoryLast.error = <<"Unknown notification type: ", factoryLast.type>>
        /\ factoryLast.returned = 0
        /\ Len(notifications) = factoryLast.countBefore

\* create("EMAIL", ...) threw after one notification had been created.
C23_Witness ==
    /\ factoryLast.op = "create"
    /\ factoryLast.type = "EMAIL"
    /\ factoryLast.outcome = "threw"
    /\ Len(notifications) = 1

\* The last call was send on an SMSNotification.
SentSMS ==
    /\ factoryLast.op = "send"
    /\ notifications[factoryLast.target].cls = "SMSNotification"

\* What the SMS printed after "Message: ".
SMSBody == Tail(factoryLast.lines[2])

\* C30: SMSNotification.send prints the message itself when it has at most
\* 160 characters, and otherwise its first 157 characters and then "...";
\* what it prints after "Message: " never has more than 160 characters.
C30_SMSBodyWithinLimit ==
    SentSMS =>
        /\ Len(factoryLast.message) <= 160 => SMSBody = factoryLast.message
        /\ Len(factoryLast.message) > 160 =>
             /\ Len(SMSBody) = 160
             /\ \A i \in 1..157 : SMSBody[i] = factoryLast.message[i]
             /\ \A i \in 158..160 : SMSBody[i] = "."
        /\ Len(SMSBody) <= 160

\* An SMS of 161 characters was sent.
C30_Witness ==
    /\ SentSMS
    /\ Len(factoryLast.message) = 161
    /\ factoryLast.lines[2][1] = "      Message: "

----------------------------------------------------------------------------
(* C24, C29 *)

\* C24: once execute() has completed a purchase of a non-empty cart, the
\* cart is empty through every reference getInstance() returned before the
\* purchase, through UserCart.instance, and through a reference that
\* getInstance() or a Purchase constructor returns right after the purchase.
C24_PurchaseEmptiesTheSharedCart ==
    /\ (cartLast.op = "execute" /\ cartLast.before # <<>>) =>
         /\ \A i \in 1..Len(refs) : userCarts[refs[i]].items = <<>>
         /\ \A p \in 1..Len(purchases) : userCarts[purchases[p].cart].items = <<>>
         /\ userCarts[instance].items = <<>>
    /\ (cartLast.op \in {"getInstance", "new Purchase"} /\ cartLast.followsPurchase) =>
         userCarts[cartLast.returned].items = <<>>

\* A reference was obtained right after a purchase, next to two obtained
\* before it.
C24_Witness ==
    /\ cartLast.op = "getInstance"
    /\ cartLast.followsPurchase
    /\ Len(refs) = 3

\* C29: execute() on an empty cart prints "Cannot purchase: Cart is empty!"
\* and nothing else, prints no total, does not call reset and leaves the cart
\* as it was.
C29_EmptyCartIsRefused ==
    (cartLast.op = "execute" /\ cartLast.before = <<>>) =>
        /\ cartLast.lines = <<"Cannot purchase: Cart is empty!">>
        /\ cartLast.total = <<>>
        /\ cartLast.calls = <<"getItems">>
        /\ userCarts[cartLast.cart].items = cartLast.before

\* A second execute(), right after the one that emptied the cart.
C29_Witness ==
    /\ cartLast.op = "execute"
    /\ cartLast.before = <<>>
    /\ cartLast.followsPurchase
    /\ Len(refs) >= 1

----------------------------------------------------------------------------
(* C25, C26, C27, C28 *)

\* The observers the last upload called update on, in call order.
Notified == [i \in 1..Len(channelLast.receipts) |-> channelLast.receipts[i].observer]

\* C25: a call on one channel leaves every other channel's observer list as
\* it was, an upload leaves every list as it was, and the event of an upload
\* names the channel it was raised on and goes only to observers subscribed
\* to that channel, whatever they are subscribed to elsewhere.
C25_ChannelsAreIndependent ==
    [][/\ \A c \in Channels :
            c # channelLast'.channel => observers'[c] = observers[c]
       /\ channelLast'.op = "uploadVideo" =>
            /\ observers' = observers
            /\ \A i \in 1..Len(channelLast'.receipts) :
                 /\ channelLast'.receipts[i].event.channelName = channelLast'.channel
                 /\ membership'[channelLast'.channel]
                               [channelLast'.receipts[i].observer] = "in"]_vars

\* An upload on the cooking channel reached an observer that is subscribed
\* to both channels and left out one subscribed to the other channel only.
C25_Witness ==
    /\ channelLast.op = "uploadVideo"
    /\ channelLast.channel = "Cooking Master"
    /\ Notified = <<"Alice">>
    /\ membership["Tech Academy"]["Alice"] = "in"
    /\ membership["Tech Academy"]["Bob"] = "in"

LeftDuring ==
    {o \in BadObservers :
        /\ ReceiptsOf(o) # {}
        /\ includes(channelLast.before, o)}

\* C27 as claimed: when an observer unsubscribes itself inside its callback,
\* every other observer subscribed when the notification began gets the
\* event exactly once.
C27_Claimed_OthersStillNotified ==
    (channelLast.op = "uploadVideo" /\ LeftDuring # {}) =>
        \A k \in 1..Len(channelLast.before) :
            channelLast.before[k] \notin LeftDuring =>
                Cardinality(ReceiptsOf(channelLast.before[k])) = 1

\* C27: when an observer unsubscribes itself inside its callback, the
\* observer that follows it in the list at the start of the notification
\* does not get the event; every other observer subscribed at the start gets
\* it exactly once, and only the unsubscribed observers leave the list.
C27_NextObserverIsSkipped ==
    channelLast.op = "uploadVideo" =>
        /\ \A k \in 1..Len(channelLast.before) :
             Cardinality(ReceiptsOf(channelLast.before[k]))
               = IF k > 1 /\ channelLast.before[k - 1] \in LeftDuring
                 THEN 0 ELSE 1
        /\ observers[channelLast.channel]
             = SelectSeq(channelLast.before, LAMBDA x : x \notin LeftDuring)

\* Bob, second of three, unsubscribed itself and the third got nothing.
C27_Witness ==
    /\ channelLast.op = "uploadVideo"
    /\ Len(channelLast.before) = 3
    /\ channelLast.before[2] = "Bob"
    /\ LeftDuring = {"Bob"}
    /\ Len(channelLast.receipts) = 2

\* C28: unsubscribe (leave) of an observer that is not in the list returns
\* normally, reports "is not subscribed." and leaves the list, its order and
\* the subscriber count as they were.
C28_UnsubscribeOfStrangerChangesNothing ==
    (channelLast.op = "unsubscribe"
        /\ ~includes(channelLast.before, channelLast.observer)) =>
        /\ channelLast.outcome = "returned"
        /\ channelLast.said = "is not subscribed."
        /\ observers[channelLast.channel] = channelLast.before
        /\ getSubscriberCount(observers[channelLast.channel])
             = getSubscriberCount(channelLast.before)

\* An observer that had left was unsubscribed again, with two still there.
C28_Witness ==
    /\ channelLast.op = "unsubscribe"
    /\ ~includes(channelLast.before, channelLast.observer)
    /\ Len(channelLast.before) = 2
    /\ Len(joined[channelLast.channel]) = 2

=============================================================================
